---- MODULE Spec2Model ----
(***************************************************************************)
(* ExZodus: a contract (apiDef) of Zod schemas enforced by an Express      *)
(* router wrapper (ExZodusRouter) and consumed by an Axios client wrapper  *)
(* (ExZodusClient).                                                        *)
(*                                                                         *)
(* JavaScript values are modelled as records: Null stands for null and     *)
(* undefined, Obj(f) for an object whose own properties are the function   *)
(* f from keys to scalars, and a scalar carries its JavaScript type.       *)
(* Client-side strings are sequences of one-character strings.             *)
(***************************************************************************)
EXTENDS Integers, Sequences, FiniteSets, TLC

(***************************************************************************)
(* Bounds                                                                  *)
(***************************************************************************)
\* routes registered on one router
MaxRoutes == 1

(***************************************************************************)
(* JavaScript values                                                       *)
(***************************************************************************)
Null == [kind |-> "null"]
Obj(f) == [kind |-> "object", fields |-> f]
NoFields == [k \in {} |-> Null]
Str(s) == [t |-> "string", v |-> s]
Num(s) == [t |-> "number", v |-> s]
Bool(s) == [t |-> "boolean", v |-> s]
Arr(items) == [t |-> "array", items |-> items]

\* strings s for which Number(s) is not NaN
NumericStrings == {"7", "0"}

(***************************************************************************)
(* Zod schemas, as far as the contract below uses them.  A schema is       *)
(* z.object(shape), optionally followed by .transform(() => null); a shape *)
(* maps a key to the kind of its field.                                    *)
(***************************************************************************)
Undefined == [kind |-> "undefined"]
ZObject(shape) == [kind |-> "object", shape |-> shape, transform |-> "none"]
ZObjectToNull(shape) == [kind |-> "object", shape |-> shape, transform |-> "null"]

IsOptional(fieldKind) ==
    fieldKind \in {"boolean.optional", "string.optional", "array.optional"}

\* parse of one present field: z.number(), z.coerce.number(), z.string(),
\* z.boolean(), z.array(z.string())
FieldOk(fieldKind, s) ==
    CASE fieldKind = "number" -> s.t = "number"
      [] fieldKind = "coerce.number" ->
            \/ s.t = "number"
            \/ s.t = "boolean"
            \/ s.t = "string" /\ s.v \in NumericStrings
      [] fieldKind \in {"string", "string.optional"} -> s.t = "string"
      [] fieldKind \in {"boolean", "boolean.optional"} -> s.t = "boolean"
      [] fieldKind = "array.optional" -> s.t = "array"

FieldOut(fieldKind, s) ==
    IF fieldKind = "coerce.number"
    THEN CASE s.t = "number" -> s
           [] s.t = "string" -> Num(s.v)
           [] s.t = "boolean" -> Num(IF s.v = "true" THEN "1" ELSE "0")
    ELSE s

\* schema.safeParse(value): ok, and the output when ok.  z.object strips the
\* keys its shape does not declare.
Parse(schema, value) ==
    IF value.kind # "object"
    THEN [ok |-> FALSE, out |-> Null]
    ELSE LET shape == schema.shape
             f == value.fields
             good == \A k \in DOMAIN shape :
                        IF k \in DOMAIN f THEN FieldOk(shape[k], f[k])
                        ELSE IsOptional(shape[k])
             kept == {k \in DOMAIN shape : k \in DOMAIN f}
             stripped == Obj([k \in kept |-> FieldOut(shape[k], f[k])])
         IN IF ~good THEN [ok |-> FALSE, out |-> Null]
            ELSE [ok |-> TRUE,
                  out |-> IF schema.transform = "null" THEN Null ELSE stripped]

\* the ZodError thrown by schema.parse(value)
ZodError(schema, value) == [name |-> "ZodError", schema |-> schema, input |-> value]

(***************************************************************************)
(* The contract                                                            *)
(***************************************************************************)
METHODS == {"get", "post", "put", "delete", "patch"}

UserSchema == ZObject([id |-> "number", name |-> "string"])
MessageSchema == ZObject([message |-> "string"])
ItemSchema == ZObject([name |-> "string"])
QuerySchema ==
    ZObject([flag |-> "boolean.optional", off |-> "boolean.optional",
             name |-> "string.optional", n |-> "string.optional",
             tags |-> "array.optional"])

Responses(codes, default) == [codes |-> codes, default |-> default]

\* apiDef: path -> method -> endpoint description
apiDef ==
    [p \in {"/users/:id", "/items"} |->
        IF p = "/users/:id"
        THEN [m \in {"get", "delete"} |->
                IF m = "get"
                THEN [request |-> Undefined,
                      parameters |-> [path |-> ZObject([id |-> "coerce.number"]),
                                      query |-> QuerySchema,
                                      header |-> Undefined],
                      responses |-> Responses(
                          [c \in {200, 404} |->
                              IF c = 200 THEN UserSchema ELSE MessageSchema],
                          UserSchema),
                      errors |-> [c \in {404} |-> MessageSchema]]
                ELSE [request |-> Undefined,
                      parameters |-> [path |-> Undefined,
                                      query |-> Undefined,
                                      header |-> Undefined],
                      responses |-> Responses(
                          [c \in {204} |-> ZObjectToNull(NoFields)], Undefined),
                      errors |-> [c \in {404} |-> MessageSchema]]]
        ELSE [m \in {"post"} |->
                [request |-> ItemSchema,
                 parameters |-> [path |-> Undefined,
                                 query |-> QuerySchema,
                                 header |-> ZObject([auth |-> "string"])],
                 responses |-> Responses(
                     [c \in {201, 204} |-> IF c = 201 THEN ItemSchema ELSE ZObjectToNull(NoFields)],
                     Undefined),
                 errors |-> [c \in {} |-> Undefined]]]]

Paths == {"/users/:id", "/items", "/health"}

\* a lookup by path alone
RouteDescription_AnyMethod(path, method) ==
    IF path \in DOMAIN apiDef
    THEN apiDef[path][CHOOSE m \in DOMAIN apiDef[path] : TRUE]
    ELSE Undefined

\* apiDef[path]?.[method] ?? undefined
RouteDescription(path, method) ==
    IF path \in DOMAIN apiDef /\ method \in DOMAIN apiDef[path]
    THEN apiDef[path][method]
    ELSE Undefined

\* routeDescription.responses?.[statusCode]
ResponseSchema(routeDescription, statusCode) ==
    IF statusCode \in DOMAIN routeDescription.responses.codes
    THEN routeDescription.responses.codes[statusCode]
    ELSE Undefined

(***************************************************************************)
(* Inputs                                                                  *)
(***************************************************************************)
\* handler lists a caller registers
HandlerLists == {<<"h1">>, <<"h2", "h1">>}

\* req.params as Express extracts them for a route path
RawParams(path) ==
    IF path = "/users/:id"
    THEN {Obj([id |-> Str("7")]), Obj([id |-> Str("x")])}
    ELSE {Obj(NoFields)}

RawQueries ==
    {Obj(NoFields),
     Obj([flag |-> Str("true"), off |-> Str("false"), name |-> Str("True"),
          n |-> Str("1"), tags |-> Arr(<<Str("true")>>)]),
     Obj([flag |-> Str("True")])}
\* req.headers["content-type"]; "" when the request has none
ContentTypes == {"application/json", "application/json; charset=utf-8", ""}
RawBodies == {Obj([name |-> Str("a"), extra |-> Str("e")]), Obj(NoFields)}

\* status codes caller code sets, bodies caller code sends
StatusChoices == {200, 201, 204}
SentBodies ==
    {Obj([id |-> Num("7"), name |-> Str("John"), password |-> Str("pw")]),
     Obj([message |-> Str("User not found")])}

FallbackBody ==
    Obj([status |-> Str("Internal server error"),
         message |-> Str("Server generated response is out of API spec")])

(***************************************************************************)
(* State                                                                   *)
(***************************************************************************)
VARIABLES
    attachResponseValidator, \* config.attachResponseValidator
    routes,       \* what the original registrars have received
    pc,           \* "idle", "dispatch", "handler", "errorHandler", "done"
    route,        \* the route serving the request
    pos,          \* position in the route's stack
    req,          \* the request object: params, query, headers, body
    rawReq,       \* the request as it was received
    res,          \* the response object: statusCode, json, headersSent
    wire,         \* responses transmitted for this request
    firstJson,    \* the first res.json call of caller code
    validated,    \* how many times the res.json override has parsed a body
    nextCalls,    \* calls of next() by the request validator
    errorCalls,   \* calls of config.errorHandler: the arguments
    invoked,      \* caller handlers invoked for this request
    clientPc,     \* "ready", "pending", "caught"
    call,         \* the client call made: method, path, config
    axiosConfig,  \* what buildAxiosConfig returned for it
    err,          \* the error the caller caught
    verdict       \* the latest isErrorOf call: its arguments and its result

serverVars == <<attachResponseValidator, routes, pc, route, pos, req, rawReq, res,
                wire, firstJson, validated, nextCalls, errorCalls, invoked>>
clientVars == <<clientPc, call, axiosConfig, err, verdict>>
vars == <<serverVars, clientVars>>

NoRoute == [method |-> "", path |-> "", handlers |-> <<>>, stack |-> <<>>]
NoReq == [params |-> Null, query |-> Null, contentType |-> "", body |-> Null]
NewRes == [statusCode |-> 200, json |-> "original", headersSent |-> FALSE]
NoJson == [called |-> FALSE]

requestVars == <<pc, route, pos, req, rawReq, res, wire, firstJson, validated,
                 nextCalls, errorCalls, invoked>>

NoCall == [made |-> FALSE]
NoAxiosConfig == [built |-> FALSE]
NoError == [caught |-> FALSE]
NoVerdict == [asked |-> FALSE]

Init ==
    /\ clientPc = "ready"
    /\ call = NoCall
    /\ axiosConfig = NoAxiosConfig
    /\ err = NoError
    /\ verdict = NoVerdict
    /\ attachResponseValidator \in BOOLEAN
    /\ routes = {}
    /\ pc = "idle"
    /\ route = NoRoute
    /\ pos = 0
    /\ req = NoReq
    /\ rawReq = NoReq
    /\ res = NewRes
    /\ wire = <<>>
    /\ firstJson = NoJson
    /\ validated = 0
    /\ nextCalls = 0
    /\ errorCalls = <<>>
    /\ invoked = <<>>

(***************************************************************************)
(* Route registration                                                      *)
(***************************************************************************)
\* originalHandlerRegistrar(path, ...stack): Express flattens the arguments
OriginalHandlerRegistrar(method, path, handlers, stack) ==
    routes' = routes \cup
        {[method |-> method, path |-> path, handlers |-> handlers, stack |-> stack]}

\* a registration that puts the interceptor in front of the validator
RouterMethod_InterceptorFirst(method, path, handlers) ==
    /\ pc = "idle"
    /\ Cardinality(routes) < MaxRoutes
    /\ \A r \in routes : ~(r.method = method /\ r.path = path)
    /\ IF RouteDescription(path, method) = Undefined
       THEN OriginalHandlerRegistrar(method, path, handlers, handlers)
       ELSE IF attachResponseValidator
            THEN OriginalHandlerRegistrar(method, path, handlers,
                    <<"responseValidator", "requestValidator">> \o handlers)
            ELSE OriginalHandlerRegistrar(method, path, handlers,
                    <<"requestValidator">> \o handlers)
    /\ UNCHANGED <<clientVars, attachResponseValidator, requestVars>>

\* router[method] = (path, ...handlers) => { ... }
RouterMethod(method, path, handlers) ==
    /\ pc = "idle"
    /\ Cardinality(routes) < MaxRoutes
    /\ \A r \in routes : ~(r.method = method /\ r.path = path)
    /\ IF RouteDescription(path, method) = Undefined
       THEN OriginalHandlerRegistrar(method, path, handlers, handlers)
       ELSE IF attachResponseValidator
            THEN OriginalHandlerRegistrar(method, path, handlers,
                    <<"requestValidator", "responseValidator">> \o handlers)
            ELSE OriginalHandlerRegistrar(method, path, handlers,
                    <<"requestValidator">> \o handlers)
    /\ UNCHANGED <<clientVars, attachResponseValidator, requestVars>>

Get == \E path \in Paths, handlers \in HandlerLists : RouterMethod("get", path, handlers)
Post == \E path \in Paths, handlers \in HandlerLists : RouterMethod("post", path, handlers)
Put == \E path \in Paths, handlers \in HandlerLists : RouterMethod("put", path, handlers)
Delete == \E path \in Paths, handlers \in HandlerLists : RouterMethod("delete", path, handlers)
Patch == \E path \in Paths, handlers \in HandlerLists : RouterMethod("patch", path, handlers)

(***************************************************************************)
(* Request handling                                                        *)
(***************************************************************************)
\* Express matches an inbound request to a registered route
Request ==
    /\ pc = "idle"
    /\ \E r \in routes : \E params \in RawParams(r.path), query \in RawQueries,
                             contentType \in ContentTypes, body \in RawBodies :
        /\ route' = r
        /\ req' = [params |-> params, query |-> query,
                   contentType |-> contentType, body |-> body]
        /\ rawReq' = req'
    /\ pc' = "dispatch"
    /\ pos' = 1
    /\ res' = NewRes
    /\ wire' = <<>>
    /\ firstJson' = NoJson
    /\ validated' = 0
    /\ nextCalls' = 0
    /\ errorCalls' = <<>>
    /\ invoked' = <<>>
    /\ UNCHANGED <<clientVars, attachResponseValidator, routes>>

\* next(): on to the following entry of the stack, or out of the router
Advance ==
    /\ pos' = pos + 1
    /\ pc' = IF pos + 1 > Len(route.stack) THEN "done" ELSE "dispatch"

\* a coercion that ignores the case of the first letter
CoerceQuery_IgnoreCase(query) ==
    IF query.kind # "object" THEN query
    ELSE Obj([k \in DOMAIN query.fields |->
                IF query.fields[k] \in {Str("true"), Str("True")} THEN Bool("true")
                ELSE IF query.fields[k] \in {Str("false"), Str("False")}
                THEN Bool("false")
                ELSE query.fields[k]])

\* the "true"/"false" coercion of the query values, done in place
CoerceQuery(query) ==
    IF query.kind # "object" THEN query
    ELSE Obj([k \in DOMAIN query.fields |->
                IF query.fields[k] = Str("true") THEN Bool("true")
                ELSE IF query.fields[k] = Str("false") THEN Bool("false")
                ELSE query.fields[k]])

\* the try block without the body branch
ValidateRequest_SkipBody(routeDescription, r) ==
    LET pathSchema == IF routeDescription.parameters.path # Undefined
                      THEN routeDescription.parameters.path
                      ELSE ZObject(NoFields)
        params == Parse(pathSchema, r.params)
        r1 == [r EXCEPT !.params = params.out]
        hasQuery == routeDescription.parameters.query # Undefined
        querySchema == IF hasQuery THEN routeDescription.parameters.query
                       ELSE ZObject(NoFields)
        r2 == IF hasQuery THEN [r1 EXCEPT !.query = CoerceQuery(r1.query)] ELSE r1
        query == Parse(querySchema, r2.query)
        r3 == [r2 EXCEPT !.query = query.out]
    IN  IF ~params.ok
        THEN [threw |-> TRUE, req |-> r, err |-> ZodError(pathSchema, r.params)]
        ELSE IF ~query.ok
        THEN [threw |-> TRUE, req |-> r2, err |-> ZodError(querySchema, r2.query)]
        ELSE [threw |-> FALSE, req |-> r3, err |-> Null]

\* the try block without the else branch of the query step
ValidateRequest_KeepQuery(routeDescription, r) ==
    LET pathSchema == IF routeDescription.parameters.path # Undefined
                      THEN routeDescription.parameters.path
                      ELSE ZObject(NoFields)
        params == Parse(pathSchema, r.params)
        r1 == [r EXCEPT !.params = params.out]
        hasQuery == routeDescription.parameters.query # Undefined
        querySchema == IF hasQuery THEN routeDescription.parameters.query
                       ELSE ZObject(NoFields)
        r2 == IF hasQuery THEN [r1 EXCEPT !.query = CoerceQuery(r1.query)] ELSE r1
        query == Parse(querySchema, r2.query)
        r3 == IF hasQuery THEN [r2 EXCEPT !.query = query.out] ELSE r2
        hasBody == r.contentType = "application/json"
                   /\ routeDescription.request # Undefined
        body == Parse(routeDescription.request, r3.body)
        r4 == [r3 EXCEPT !.body = body.out]
    IN  IF ~params.ok
        THEN [threw |-> TRUE, req |-> r, err |-> ZodError(pathSchema, r.params)]
        ELSE IF ~query.ok
        THEN [threw |-> TRUE, req |-> r2, err |-> ZodError(querySchema, r2.query)]
        ELSE IF hasBody /\ ~body.ok
        THEN [threw |-> TRUE, req |-> r3,
              err |-> ZodError(routeDescription.request, r3.body)]
        ELSE [threw |-> FALSE, req |-> IF hasBody THEN r4 ELSE r3, err |-> Null]

\* the try block with a body branch that accepts a content type with
\* parameters
ValidateRequest_AnyJson(routeDescription, r) ==
    LET pathSchema == IF routeDescription.parameters.path # Undefined
                      THEN routeDescription.parameters.path
                      ELSE ZObject(NoFields)
        params == Parse(pathSchema, r.params)
        r1 == [r EXCEPT !.params = params.out]
        hasQuery == routeDescription.parameters.query # Undefined
        querySchema == IF hasQuery THEN routeDescription.parameters.query
                       ELSE ZObject(NoFields)
        r2 == IF hasQuery THEN [r1 EXCEPT !.query = CoerceQuery(r1.query)] ELSE r1
        query == Parse(querySchema, r2.query)
        r3 == [r2 EXCEPT !.query = query.out]
        hasBody == r.contentType \in {"application/json",
                                      "application/json; charset=utf-8"}
                   /\ routeDescription.request # Undefined
        body == Parse(routeDescription.request, r3.body)
        r4 == [r3 EXCEPT !.body = body.out]
    IN  IF ~params.ok
        THEN [threw |-> TRUE, req |-> r, err |-> ZodError(pathSchema, r.params)]
        ELSE IF ~query.ok
        THEN [threw |-> TRUE, req |-> r2, err |-> ZodError(querySchema, r2.query)]
        ELSE IF hasBody /\ ~body.ok
        THEN [threw |-> TRUE, req |-> r3,
              err |-> ZodError(routeDescription.request, r3.body)]
        ELSE [threw |-> FALSE, req |-> IF hasBody THEN r4 ELSE r3, err |-> Null]

\* the try block with the query coercion moved before the path step
ValidateRequest_CoerceFirst(routeDescription, r) ==
    LET pathSchema == IF routeDescription.parameters.path # Undefined
                      THEN routeDescription.parameters.path
                      ELSE ZObject(NoFields)
        params == Parse(pathSchema, r.params)
        r1 == [r EXCEPT !.params = params.out]
        hasQuery == routeDescription.parameters.query # Undefined
        querySchema == IF hasQuery THEN routeDescription.parameters.query
                       ELSE ZObject(NoFields)
        r2 == IF hasQuery THEN [r1 EXCEPT !.query = CoerceQuery(r1.query)] ELSE r1
        query == Parse(querySchema, r2.query)
        r3 == [r2 EXCEPT !.query = query.out]
        hasBody == r.contentType = "application/json"
                   /\ routeDescription.request # Undefined
        body == Parse(routeDescription.request, r3.body)
        r4 == [r3 EXCEPT !.body = body.out]
    IN  IF ~params.ok
        THEN [threw |-> TRUE,
              req |-> IF hasQuery THEN [r EXCEPT !.query = CoerceQuery(r.query)] ELSE r,
              err |-> ZodError(pathSchema, r.params)]
        ELSE IF ~query.ok
        THEN [threw |-> TRUE, req |-> r2, err |-> ZodError(querySchema, r2.query)]
        ELSE IF hasBody /\ ~body.ok
        THEN [threw |-> TRUE, req |-> r3,
              err |-> ZodError(routeDescription.request, r3.body)]
        ELSE [threw |-> FALSE, req |-> IF hasBody THEN r4 ELSE r3, err |-> Null]

\* the try block of requestValidator: the request it leaves behind, and the
\* error thrown, if any
ValidateRequest(routeDescription, r) ==
    LET pathSchema == IF routeDescription.parameters.path # Undefined
                      THEN routeDescription.parameters.path
                      ELSE ZObject(NoFields)
        params == Parse(pathSchema, r.params)
        r1 == [r EXCEPT !.params = params.out]
        hasQuery == routeDescription.parameters.query # Undefined
        querySchema == IF hasQuery THEN routeDescription.parameters.query
                       ELSE ZObject(NoFields)
        r2 == IF hasQuery THEN [r1 EXCEPT !.query = CoerceQuery(r1.query)] ELSE r1
        query == Parse(querySchema, r2.query)
        r3 == [r2 EXCEPT !.query = query.out]
        hasBody == r.contentType = "application/json"
                   /\ routeDescription.request # Undefined
        body == Parse(routeDescription.request, r3.body)
        r4 == [r3 EXCEPT !.body = body.out]
    IN  IF ~params.ok
        THEN [threw |-> TRUE, req |-> r, err |-> ZodError(pathSchema, r.params)]
        ELSE IF ~query.ok
        THEN [threw |-> TRUE, req |-> r2, err |-> ZodError(querySchema, r2.query)]
        ELSE IF hasBody /\ ~body.ok
        THEN [threw |-> TRUE, req |-> r3,
              err |-> ZodError(routeDescription.request, r3.body)]
        ELSE [threw |-> FALSE, req |-> IF hasBody THEN r4 ELSE r3, err |-> Null]

\* requestValidator = (req, res, next) => { try { ...; return next(); }
\*                                         catch (err) { config.errorHandler(err, req, res); } }
RequestValidator ==
    /\ pc = "dispatch"
    /\ route.stack[pos] = "requestValidator"
    /\ LET v == ValidateRequest(RouteDescription(route.path, route.method), req)
       IN /\ req' = v.req
          /\ IF v.threw
             THEN /\ errorCalls' = Append(errorCalls, [err |-> v.err, res |-> res])
                  /\ pc' = "errorHandler"
                  /\ UNCHANGED <<pos, nextCalls>>
             ELSE /\ nextCalls' = nextCalls + 1
                  /\ Advance
                  /\ UNCHANGED errorCalls
    /\ UNCHANGED <<clientVars, attachResponseValidator, routes, route, rawReq, res, wire,
                   firstJson, validated, invoked>>

\* responseValidator = (_req, res, next) => { res.json = function ...; return next(); }
ResponseValidator ==
    /\ pc = "dispatch"
    /\ route.stack[pos] = "responseValidator"
    /\ res' = [res EXCEPT !.json = "override"]
    /\ Advance
    /\ UNCHANGED <<clientVars, attachResponseValidator, routes, route, req, rawReq, wire,
                   firstJson, validated, nextCalls, errorCalls, invoked>>

\* Express invokes a handler of the caller
InvokeHandler ==
    /\ pc = "dispatch"
    /\ route.stack[pos] \notin {"requestValidator", "responseValidator"}
    /\ invoked' = Append(invoked, [handler |-> route.stack[pos], req |-> req, json |-> res.json])
    /\ pc' = "handler"
    /\ UNCHANGED <<clientVars, attachResponseValidator, routes, route, pos, req, rawReq, res,
                   wire, firstJson, validated, nextCalls, errorCalls>>

(***************************************************************************)
(* The response                                                            *)
(***************************************************************************)
\* a transport that transmits again on a response already sent
OriginalJson_Resend(r, w, body) ==
    [threw |-> FALSE,
     res |-> [r EXCEPT !.headersSent = TRUE],
     wire |-> Append(w, [status |-> r.statusCode, body |-> body])]

\* originalJson.call(this, body): Express transmits the status code and the
\* body, and throws once the headers have been sent
OriginalJson(r, w, body) ==
    IF r.headersSent
    THEN [threw |-> TRUE, res |-> r, wire |-> w]
    ELSE [threw |-> FALSE,
          res |-> [r EXCEPT !.headersSent = TRUE],
          wire |-> Append(w, [status |-> r.statusCode, body |-> body])]

\* the override with a catch block that forgets res.status(500)
JsonOverride_KeepStatus(routeDescription, r, w, body) ==
    LET schema == ResponseSchema(routeDescription, r.statusCode)
        parsed == Parse(schema, body)
        parseThrew == schema # Undefined /\ ~parsed.ok
        parsedBody == IF schema = Undefined \/ parsed.out = Null THEN body
                      ELSE parsed.out
        sent == OriginalJson(r, w, parsedBody)
        caught == OriginalJson(r, w, FallbackBody)
    IN  IF ~parseThrew /\ ~sent.threw THEN sent ELSE caught

\* res.json = function (body) { try { ... } catch { ... } }
JsonOverride(routeDescription, r, w, body) ==
    LET schema == ResponseSchema(routeDescription, r.statusCode)
        parsed == Parse(schema, body)
        parseThrew == schema # Undefined /\ ~parsed.ok
        parsedBody == IF schema = Undefined \/ parsed.out = Null THEN body
                      ELSE parsed.out
        sent == OriginalJson(r, w, parsedBody)
        caught == OriginalJson([r EXCEPT !.statusCode = 500], w, FallbackBody)
    IN  IF ~parseThrew /\ ~sent.threw THEN sent ELSE caught

\* caller code (a handler or the error handler) calls res.status(code)
ResStatus ==
    /\ pc \in {"handler", "errorHandler"}
    /\ \E code \in StatusChoices :
        /\ res.statusCode # code
        /\ res' = [res EXCEPT !.statusCode = code]
    /\ UNCHANGED <<clientVars, attachResponseValidator, routes, pc, route, pos, req, rawReq,
                   wire, firstJson, validated, nextCalls, errorCalls, invoked>>

\* caller code calls res.json(body); an exception ends it
ResJson ==
    /\ pc \in {"handler", "errorHandler"}
    /\ \E body \in SentBodies :
        LET out == IF res.json = "override"
                   THEN JsonOverride(RouteDescription(route.path, route.method),
                                     res, wire, body)
                   ELSE OriginalJson(res, wire, body)
        IN /\ res' = out.res
           /\ wire' = out.wire
           /\ firstJson' = IF firstJson.called THEN firstJson
                            ELSE [called |-> TRUE, statusCode |-> res.statusCode,
                                  body |-> body, by |-> pc]
           /\ validated' =
                IF /\ res.json = "override"
                   /\ ResponseSchema(RouteDescription(route.path, route.method),
                                     res.statusCode) # Undefined
                THEN validated + 1 ELSE validated
           /\ pc' = IF out.threw THEN "done" ELSE pc
    /\ UNCHANGED <<clientVars, attachResponseValidator, routes, route, pos, req, rawReq,
                   nextCalls, errorCalls, invoked>>

\* a handler of the caller calls next() and returns
HandlerNext ==
    /\ pc = "handler"
    /\ Advance
    /\ UNCHANGED <<clientVars, attachResponseValidator, routes, route, req, rawReq, res, wire,
                   firstJson, validated, nextCalls, errorCalls, invoked>>

\* caller code returns without calling next()
HandlerReturn ==
    /\ pc \in {"handler", "errorHandler"}
    /\ pc' = "done"
    /\ UNCHANGED <<clientVars, attachResponseValidator, routes, route, pos, req, rawReq, res,
                   wire, firstJson, validated, nextCalls, errorCalls, invoked>>

\* the request is over; the router serves the next one
Finish ==
    /\ pc = "done"
    /\ pc' = "idle"
    /\ route' = NoRoute
    /\ pos' = 0
    /\ req' = NoReq
    /\ rawReq' = NoReq
    /\ res' = NewRes
    /\ wire' = <<>>
    /\ firstJson' = NoJson
    /\ validated' = 0
    /\ nextCalls' = 0
    /\ errorCalls' = <<>>
    /\ invoked' = <<>>
    /\ UNCHANGED <<clientVars, attachResponseValidator, routes>>

(***************************************************************************)
(* The client                                                              *)
(***************************************************************************)
\* path templates a caller passes, as sequences of characters
UsersId == <<"/", "u", "/", ":", "i", "d">>
Twice == <<"/", ":", "i", "d", "/", ":", "i", "d">>
Prefixed == <<"/", ":", "i", "d", "x", "/", ":", "i", "d">>
Plain == <<"/", "u">>
Templates == {UsersId, Twice, Prefixed, Plain}

KeyId == <<"i", "d">>
KeyIdx == <<"i", "d", "x">>
NumV(n) == [t |-> "number", n |-> n]
StrV(chars) == [t |-> "string", s |-> chars]
Pair(key, value) == [key |-> key, value |-> value]

\* config.path, as the sequence of its entries in Object.keys order
PathInputs ==
    {<<>>,
     <<Pair(KeyId, NumV(7))>>,
     <<Pair(KeyIdx, StrV(<<"a">>))>>,
     <<Pair(KeyId, NumV(7)), Pair(KeyIdx, NumV(10))>>,
     <<Pair(KeyIdx, NumV(10)), Pair(KeyId, StrV(<<"a">>))>>}

\* the config argument: undefined, or an object with or without a path key
Configs ==
    {Undefined}
    \cup {[hasPath |-> FALSE, path |-> <<>>, header |-> Null, query |-> Null,
           body |-> Obj([name |-> Str("a")]), responseType |-> Str("json")]}
    \cup {[hasPath |-> TRUE, path |-> pi, header |-> Null, query |-> Null,
           body |-> Null, responseType |-> Null] : pi \in PathInputs}

ErrorStatuses == {404, 500}

Digit(d) == CASE d = 0 -> "0" [] d = 1 -> "1" [] d = 2 -> "2" [] d = 3 -> "3"
              [] d = 4 -> "4" [] d = 5 -> "5" [] d = 6 -> "6" [] d = 7 -> "7"
              [] d = 8 -> "8" [] d = 9 -> "9"

RECURSIVE Digits(_)
Digits(n) == IF n < 10 THEN <<Digit(n)>> ELSE Append(Digits(n \div 10), Digit(n % 10))

\* value.toString() of a string or a non-negative integer
toString(value) == IF value.t = "number" THEN Digits(value.n) ELSE value.s

\* str.indexOf(pattern) + 1
IndexOf(str, pattern) ==
    LET hits == {i \in 1..(Len(str) - Len(pattern) + 1) :
                    SubSeq(str, i, i + Len(pattern) - 1) = pattern}
    IN IF hits = {} THEN 0 ELSE CHOOSE i \in hits : \A j \in hits : i <= j

\* str.replace(pattern, replacement) with a string pattern: the first
\* occurrence only (the replacements here hold no "$")
Replace(str, pattern, replacement) ==
    LET i == IndexOf(str, pattern)
    IN IF i = 0 THEN str
       ELSE SubSeq(str, 1, i - 1) \o replacement
            \o SubSeq(str, i + Len(pattern), Len(str))

\* Object.keys(path).forEach(key => { modifiedUrl = modifiedUrl.replace(...) })
RECURSIVE replacePathParams(_, _)
replacePathParams(url, path) ==
    IF path = <<>> THEN url
    ELSE replacePathParams(
            Replace(url, <<":">> \o Head(path).key, toString(Head(path).value)),
            Tail(path))

buildAxiosConfig(method, path, config) ==
    IF config = Undefined
    THEN [built |-> TRUE, method |-> method, url |-> path,
          headers |-> Null, params |-> Null, data |-> Null, responseType |-> Null]
    ELSE [built |-> TRUE, method |-> method,
          url |-> IF config.hasPath THEN replacePathParams(path, config.path) ELSE path,
          headers |-> config.header,
          params |-> config.query,
          data |-> config.body,
          responseType |-> config.responseType]

\* an AxiosError: the request config it records and the response, if any
AxiosError(config, response) ==
    [caught |-> TRUE, isAxiosError |-> TRUE, config |-> config, response |-> response]

\* a classifier that does not compare the url
isErrorOf_NoUrl(e, method, path, code) ==
    IF ~e.isAxiosError THEN FALSE
    ELSE IF (IF e.config = Undefined THEN TRUE ELSE e.config.method # method) THEN FALSE
    ELSE IF (IF e.response = Undefined THEN TRUE ELSE e.response.status # code) THEN FALSE
    ELSE TRUE

isErrorOf(e, method, path, code) ==
    IF ~e.isAxiosError THEN FALSE
    ELSE IF (IF e.config = Undefined THEN TRUE ELSE e.config.method # method) THEN FALSE
    ELSE IF (IF e.config = Undefined THEN TRUE ELSE e.config.url # path) THEN FALSE
    ELSE IF (IF e.response = Undefined THEN TRUE ELSE e.response.status # code) THEN FALSE
    ELSE TRUE

\* client[method](path, config): build the request and hand it to axios
ClientMethod(method) ==
    /\ clientPc = "ready"
    /\ \E path \in Templates, config \in Configs :
        /\ call' = [made |-> TRUE, method |-> method, path |-> path, config |-> config]
        /\ axiosConfig' = buildAxiosConfig(method, path, config)
    /\ clientPc' = "pending"
    /\ err' = NoError
    /\ verdict' = NoVerdict
    /\ UNCHANGED serverVars

ClientGet == ClientMethod("get")
ClientPost == ClientMethod("post")
ClientPut == ClientMethod("put")
ClientPatch == ClientMethod("patch")
ClientDelete == ClientMethod("delete")

\* axios.request resolves: the call returns res.data
AxiosResolve ==
    /\ clientPc = "pending"
    /\ clientPc' = "ready"
    /\ call' = NoCall
    /\ axiosConfig' = NoAxiosConfig
    /\ UNCHANGED <<serverVars, err, verdict>>

\* axios.request rejects: a response with an error status, or no response
AxiosReject ==
    /\ clientPc = "pending"
    /\ \E response \in {Undefined} \cup {[status |-> c] : c \in ErrorStatuses} :
        err' = AxiosError([method |-> axiosConfig.method, url |-> axiosConfig.url],
                          response)
    /\ clientPc' = "caught"
    /\ UNCHANGED <<serverVars, call, axiosConfig, verdict>>

\* the caller catches an error no client call raised: a plain Error, or an
\* AxiosError built without a config
CatchOther ==
    /\ clientPc = "ready"
    /\ \E e \in {[caught |-> TRUE, isAxiosError |-> FALSE],
                 AxiosError(Undefined, Undefined),
                 AxiosError(Undefined, [status |-> 404])} :
        err' = e
    /\ call' = NoCall
    /\ axiosConfig' = NoAxiosConfig
    /\ verdict' = NoVerdict
    /\ clientPc' = "caught"
    /\ UNCHANGED serverVars

\* the caller classifies the caught error
IsErrorOf ==
    /\ clientPc = "caught"
    /\ \E method \in METHODS, code \in ErrorStatuses,
          path \in Templates \cup (IF axiosConfig.built THEN {axiosConfig.url} ELSE {}) :
        verdict' = [asked |-> TRUE, err |-> err, method |-> method, path |-> path,
                    code |-> code, result |-> isErrorOf(err, method, path, code)]
    /\ UNCHANGED <<serverVars, clientPc, call, axiosConfig, err>>

\* the caller is done with the error
Handled ==
    /\ clientPc = "caught"
    /\ clientPc' = "ready"
    /\ call' = NoCall
    /\ axiosConfig' = NoAxiosConfig
    /\ err' = NoError
    /\ verdict' = NoVerdict
    /\ UNCHANGED serverVars

ClientNext ==
    \/ ClientGet \/ ClientPost \/ ClientPut \/ ClientPatch \/ ClientDelete
    \/ AxiosResolve
    \/ AxiosReject
    \/ CatchOther
    \/ IsErrorOf
    \/ Handled

\* a client in a process that runs no router
InitClient ==
    /\ clientPc = "ready"
    /\ call = NoCall
    /\ axiosConfig = NoAxiosConfig
    /\ err = NoError
    /\ verdict = NoVerdict
    /\ attachResponseValidator = TRUE
    /\ routes = {}
    /\ pc = "idle"
    /\ route = NoRoute
    /\ pos = 0
    /\ req = NoReq
    /\ rawReq = NoReq
    /\ res = NewRes
    /\ wire = <<>>
    /\ firstJson = NoJson
    /\ validated = 0
    /\ nextCalls = 0
    /\ errorCalls = <<>>
    /\ invoked = <<>>

SpecClient == InitClient /\ [][ClientNext]_vars

Next ==
    \/ Get \/ Post \/ Put \/ Delete \/ Patch
    \/ Request
    \/ RequestValidator
    \/ ResponseValidator
    \/ InvokeHandler
    \/ ResStatus
    \/ ResJson
    \/ HandlerNext
    \/ HandlerReturn
    \/ Finish

Spec == Init /\ [][Next]_vars

(***************************************************************************)
(* Properties of the router                                                *)
(***************************************************************************)
\* the contract describes the (path, method) pair
InContract(path, method) == path \in DOMAIN apiDef /\ method \in DOMAIN apiDef[path]

\* a handler of the caller has sent a JSON body on a route of the contract
\* whose responses are validated
HandlerSentJson ==
    /\ firstJson.called
    /\ firstJson.by = "handler"
    /\ attachResponseValidator
    /\ InContract(route.path, route.method)

\* the schema the contract declares for the status code of that send
DeclaredSchema ==
    LET codes == apiDef[route.path][route.method].responses.codes
    IN IF firstJson.statusCode \in DOMAIN codes THEN codes[firstJson.statusCode]
       ELSE Undefined

FallbackResponse == [status |-> 500, body |-> FallbackBody]

\* C1: with response validation enabled on a route of the contract, a JSON
\* body a handler sends that fails the schema declared for the status code
\* in effect is answered on the wire by status 500 and the fixed fallback
\* body, whatever status and body the handler used.
C1_OutOfSpecBodyYields500 ==
    (HandlerSentJson /\ DeclaredSchema # Undefined
        /\ ~Parse(DeclaredSchema, firstJson.body).ok)
    => wire = <<FallbackResponse>>

C1_Witness ==
    /\ HandlerSentJson
    /\ DeclaredSchema # Undefined
    /\ ~Parse(DeclaredSchema, firstJson.body).ok
    /\ firstJson.statusCode = 201
    /\ wire = <<FallbackResponse>>

\* C2: with response validation enabled on a route of the contract, a JSON
\* body a handler sends that satisfies the schema declared for the status
\* code it set is transmitted as exactly the schema's output for it, under
\* the status code the handler set.
C2_ValidBodySentAsSchemaOutput ==
    (HandlerSentJson /\ DeclaredSchema # Undefined
        /\ Parse(DeclaredSchema, firstJson.body).ok)
    => wire = <<[status |-> firstJson.statusCode,
                 body |-> Parse(DeclaredSchema, firstJson.body).out]>>

\* C3: a JSON body sent under a status code the responses do not declare is
\* validated against the default response schema when one is declared (a
\* violation yields the 500 fallback), and goes out unchecked only when no
\* default is declared.
C3_UndeclaredStatusUsesDefault ==
    (HandlerSentJson /\ DeclaredSchema = Undefined)
    => LET default == apiDef[route.path][route.method].responses.default
       IN IF default = Undefined
          THEN wire = <<[status |-> firstJson.statusCode, body |-> firstJson.body]>>
          ELSE ~Parse(default, firstJson.body).ok => wire = <<FallbackResponse>>

\* what the request validator is to do with the request as received
ExpectedPathSchema(d) ==
    IF d.parameters.path = Undefined THEN ZObject(NoFields) ELSE d.parameters.path
ExpectedQuerySchema(d) ==
    IF d.parameters.query = Undefined THEN ZObject(NoFields) ELSE d.parameters.query
ExpectedQueryInput(d, raw) ==
    IF d.parameters.query = Undefined THEN raw.query ELSE CoerceQuery(raw.query)
BodyChecked(d, raw) ==
    raw.contentType = "application/json" /\ d.request # Undefined
ExpectedRequest(d, raw) ==
    [params |-> Parse(ExpectedPathSchema(d), raw.params).out,
     query |-> Parse(ExpectedQuerySchema(d), ExpectedQueryInput(d, raw)).out,
     contentType |-> raw.contentType,
     body |-> IF BodyChecked(d, raw) THEN Parse(d.request, raw.body).out ELSE raw.body]
ExpectedFailure(d, raw) ==
    IF ~Parse(ExpectedPathSchema(d), raw.params).ok
    THEN ZodError(ExpectedPathSchema(d), raw.params)
    ELSE IF ~Parse(ExpectedQuerySchema(d), ExpectedQueryInput(d, raw)).ok
    THEN ZodError(ExpectedQuerySchema(d), ExpectedQueryInput(d, raw))
    ELSE IF BodyChecked(d, raw) /\ ~Parse(d.request, raw.body).ok
    THEN ZodError(d.request, raw.body)
    ELSE Null

\* the request validator of the route serving the request has run
ValidatorRan ==
    /\ route # NoRoute
    /\ InContract(route.path, route.method)
    /\ ~(pc = "dispatch" /\ pos = 1)

\* C4: for a request to a route of the contract the request validator ends
\* in exactly one of two ways: every validation succeeded, next() was called
\* once and every handler sees exactly the validated values; or a validation
\* failed, the error handler was called once with that failure and the
\* in-flight response, and no handler of the caller is invoked.
C4_ValidatorOutcome ==
    ValidatorRan =>
        LET d == apiDef[route.path][route.method]
            failure == ExpectedFailure(d, rawReq)
        IN IF failure = Null
           THEN /\ nextCalls = 1
                /\ errorCalls = <<>>
                /\ req = ExpectedRequest(d, rawReq)
                /\ \A i \in DOMAIN invoked : invoked[i].req = ExpectedRequest(d, rawReq)
           ELSE /\ nextCalls = 0
                /\ errorCalls = <<[err |-> failure, res |-> NewRes]>>
                /\ invoked = <<>>

C4_WitnessPassed ==
    /\ ValidatorRan
    /\ nextCalls = 1
    /\ Len(invoked) = 2
    /\ req # rawReq
    /\ rawReq.contentType = "application/json"
    /\ route.path = "/items"

C4_Witness ==
    /\ ValidatorRan
    /\ Len(errorCalls) = 1
    /\ errorCalls[1].err = ZodError(ItemSchema, Obj(NoFields))
    /\ pc = "done"

\* C5: a route of the contract is registered as the request validator, then
\* the response interceptor exactly when attachResponseValidator is set, then
\* the caller's handlers in their order; so whenever a handler of the caller
\* is invoked the validator has passed the request on and, when enabled, the
\* interceptor has already replaced res.json.
C5_StackOrder ==
    /\ \A r \in routes :
        InContract(r.path, r.method) =>
            r.stack = <<"requestValidator">>
                      \o (IF attachResponseValidator THEN <<"responseValidator">> ELSE <<>>)
                      \o r.handlers
    /\ (route # NoRoute /\ InContract(route.path, route.method)) =>
        \A i \in DOMAIN invoked :
            /\ nextCalls = 1
            /\ invoked[i].handler = route.handlers[i]
            /\ invoked[i].json = IF attachResponseValidator THEN "override" ELSE "original"

C5_Witness ==
    /\ attachResponseValidator
    /\ route # NoRoute
    /\ InContract(route.path, route.method)
    /\ route.handlers = <<"h2", "h1">>
    /\ Len(invoked) = 2
    /\ invoked[1].json = "override"

\* C6: registering handlers for a (path, method) pair the contract does not
\* describe registers exactly those handlers in their order; a request to
\* such a route reaches them with the params, query and body as received,
\* and what they send goes out unchecked.
C6_UnmatchedPassThrough ==
    /\ \A r \in routes : ~InContract(r.path, r.method) => r.stack = r.handlers
    /\ (route # NoRoute /\ ~InContract(route.path, route.method)) =>
        /\ req = rawReq
        /\ nextCalls = 0
        /\ errorCalls = <<>>
        /\ res.json = "original"
        /\ \A i \in DOMAIN invoked : invoked[i].handler = route.handlers[i]
        /\ firstJson.called =>
            wire = <<[status |-> firstJson.statusCode, body |-> firstJson.body]>>

C6_Witness ==
    /\ route # NoRoute
    /\ route.path = "/users/:id"
    /\ route.method = "patch"
    /\ route.handlers = <<"h2", "h1">>
    /\ Len(invoked) = 2
    /\ rawReq.params = Obj([id |-> Str("x")])
    /\ firstJson.called
    /\ firstJson.statusCode = 200
    /\ firstJson.body = Obj([message |-> Str("User not found")])

(***************************************************************************)
(* Properties of the client                                                *)
(***************************************************************************)
\* C7: isErrorOf(err, m, p, c) is true of every error that a client call
\* with method m and path template p raised and whose response carried
\* status c, placeholders substituted from config.path or not.
C7_ClassifiesOwnErrors ==
    (/\ verdict.asked
     /\ call.made
     /\ err.response # Undefined
     /\ verdict.method = call.method
     /\ verdict.path = call.path
     /\ verdict.code = err.response.status)
    => verdict.result

\* C8: isErrorOf(err, m, p, c) is true exactly when err is an AxiosError
\* whose recorded method is m, whose recorded url is p and whose response
\* status is c; an error that is no AxiosError or has no response is never
\* matched, and err is left as it was.
C8_IsErrorOfExact ==
    verdict.asked =>
        /\ err = verdict.err
        /\ verdict.result <=>
            /\ err.isAxiosError
            /\ err.config # Undefined
            /\ err.config.method = verdict.method
            /\ err.config.url = verdict.path
            /\ err.response # Undefined
            /\ err.response.status = verdict.code

C8_Witness ==
    /\ verdict.asked
    /\ verdict.result
    /\ call.made
    /\ call.path = UsersId
    /\ verdict.path = <<"/", "u", "/", "7">>
    /\ verdict.code = 404

\* str.split("/")
RECURSIVE Segments(_)
Segments(str) ==
    LET i == IndexOf(str, <<"/">>)
    IN IF i = 0 THEN <<str>>
       ELSE <<SubSeq(str, 1, i - 1)>> \o Segments(SubSeq(str, i + 1, Len(str)))

\* the path input of the call made: none without a config or a path key
SuppliedPath ==
    IF call.config = Undefined \/ ~call.config.hasPath THEN <<>> ELSE call.config.path
SuppliedKeys == {SuppliedPath[i].key : i \in DOMAIN SuppliedPath}
ValueOf(key) ==
    LET i == CHOOSE j \in DOMAIN SuppliedPath : SuppliedPath[j].key = key
    IN SuppliedPath[i].value
IsPlaceholder(segment) == segment # <<>> /\ Head(segment) = ":"

\* C9: with a config that has a path key, every occurrence in the template
\* of a placeholder :name whose name is a key of config.path is replaced by
\* the string form of that key's value, also when it occurs more than once.
C9_EveryOccurrenceReplaced ==
    (call.made /\ call.config # Undefined /\ call.config.hasPath) =>
        LET from == Segments(call.path)
            to == Segments(axiosConfig.url)
        IN /\ Len(to) = Len(from)
           /\ \A i \in DOMAIN from :
                (IsPlaceholder(from[i]) /\ Tail(from[i]) \in SuppliedKeys)
                => to[i] = toString(ValueOf(Tail(from[i])))

\* C10: every placeholder :name whose name is not a key of the path input
\* is, verbatim, in the resolved url, also when its name begins with a
\* supplied key; without a config or without a path key the url is the
\* template.
C10_UnmatchedPlaceholdersVerbatim ==
    call.made =>
        LET from == Segments(call.path)
            to == Segments(axiosConfig.url)
        IN /\ Len(to) = Len(from)
           /\ \A i \in DOMAIN from :
                (IsPlaceholder(from[i]) /\ Tail(from[i]) \notin SuppliedKeys)
                => to[i] = from[i]
           /\ SuppliedPath = <<>> => axiosConfig.url = call.path

(***************************************************************************)
(* The steps of the request validator                                      *)
(***************************************************************************)
\* the request validator has run and did not fail on the path parameters
PathPassed ==
    /\ ValidatorRan
    /\ \A i \in DOMAIN errorCalls :
        errorCalls[i].err.schema # ExpectedPathSchema(apiDef[route.path][route.method])

\* the query value the schema is to be handed for a raw query value
C11_Value(raw) ==
    CASE raw = Str("true") -> Bool("true")
      [] raw = Str("false") -> Bool("false")
      [] OTHER -> raw

\* C11: on a route of the contract that declares a query schema, the query
\* schema is handed the raw query with every top-level value "true" or
\* "false" replaced by the boolean and every other value (another string
\* such as "True" or "1", an array holding "true") as received: the query
\* is accepted or rejected as that input is, the handler sees the schema's
\* output for it, and a rejection carries it.
C11_QueryCoercion ==
    (PathPassed /\ apiDef[route.path][route.method].parameters.query # Undefined)
    => LET schema == apiDef[route.path][route.method].parameters.query
           input == Obj([k \in DOMAIN rawReq.query.fields |->
                            C11_Value(rawReq.query.fields[k])])
       IN IF Parse(schema, input).ok
          THEN /\ req.query = Parse(schema, input).out
               /\ \A i \in DOMAIN errorCalls : errorCalls[i].err.schema # schema
               /\ \A k \in DOMAIN req.query.fields :
                    req.query.fields[k] = C11_Value(rawReq.query.fields[k])
          ELSE /\ Len(errorCalls) = 1
               /\ errorCalls[1].err = ZodError(schema, input)
               /\ req.query = input

\* a handler sees the booleans for "true" and "false" next to "True", "1"
\* and an array holding "true" as they were received
C11_Witness ==
    /\ PathPassed
    /\ Len(invoked) >= 1
    /\ rawReq.query.fields # NoFields
    /\ "tags" \in DOMAIN rawReq.query.fields
    /\ invoked[1].req.query =
        Obj([flag |-> Bool("true"), off |-> Bool("false"), name |-> Str("True"),
             n |-> Str("1"), tags |-> Arr(<<Str("true")>>)])

\* C12: on a route of the contract that declares no query schema the query
\* never fails the request, whatever was received, and the request and every
\* handler hold the empty object as query.
C12_NoQuerySchemaEmptiesQuery ==
    (PathPassed /\ apiDef[route.path][route.method].parameters.query = Undefined)
    => /\ req.query = Obj(NoFields)
       /\ \A i \in DOMAIN invoked : invoked[i].req.query = Obj(NoFields)
       /\ \A i \in DOMAIN errorCalls :
            /\ apiDef[route.path][route.method].request # Undefined
            /\ errorCalls[i].err.schema = apiDef[route.path][route.method].request

\* a handler of a route without query schema runs on a request that came
\* with query values
C12_Witness ==
    /\ PathPassed
    /\ apiDef[route.path][route.method].parameters.query = Undefined
    /\ DOMAIN rawReq.query.fields # {}
    /\ Len(invoked) >= 1
    /\ invoked[1].req.query = Obj(NoFields)

\* C13: on a route of the contract that declares no path-parameter schema a
\* request that carries a path parameter fails the validation: the error
\* handler is called once, next() is not called and no handler is invoked.
C13_NoPathSchemaRejectsParams ==
    ( /\ ValidatorRan
      /\ apiDef[route.path][route.method].parameters.path = Undefined
      /\ DOMAIN rawReq.params.fields # {} )
    => /\ Len(errorCalls) = 1
       /\ nextCalls = 0
       /\ invoked = <<>>

\* C14: the body is validated, and replaced by the schema's output, only
\* when the content type is exactly application/json and the descriptor
\* declares a body schema; in every other case (no content type, another
\* one, no body schema) no failure comes from the body and the body that
\* reaches the handlers is the raw body, unchanged.
C14_BodyOnlyForJsonWithSchema ==
    ValidatorRan =>
        LET d == apiDef[route.path][route.method]
        IN IF rawReq.contentType = "application/json" /\ d.request # Undefined
           THEN nextCalls = 1 =>
                    /\ Parse(d.request, rawReq.body).ok
                    /\ req.body = Parse(d.request, rawReq.body).out
                    /\ \A i \in DOMAIN invoked : invoked[i].req.body = req.body
           ELSE /\ req.body = rawReq.body
                /\ \A i \in DOMAIN invoked : invoked[i].req.body = rawReq.body
                /\ \A i \in DOMAIN errorCalls :
                    d.request = Undefined \/ errorCalls[i].err.schema # d.request

\* a handler of a route with a body schema sees the raw body, undeclared
\* key included, of a request whose content type carries a charset
C14_Witness ==
    /\ ValidatorRan
    /\ apiDef[route.path][route.method].request # Undefined
    /\ rawReq.contentType = "application/json; charset=utf-8"
    /\ Len(invoked) >= 1
    /\ "extra" \in DOMAIN invoked[1].req.body.fields

(***************************************************************************)
(* The sends of one response                                               *)
(***************************************************************************)
\* C15: for one response on a route of the contract with response
\* validation enabled the interceptor validates at most one body: a second
\* or later res.json call of the handler is not validated again.
C15_AtMostOneSendValidated ==
    (route # NoRoute /\ InContract(route.path, route.method) /\ attachResponseValidator)
    => validated <= 1

C17_OrderAndFirstFailure ==
    ValidatorRan =>
        LET d == apiDef[route.path][route.method]
            pathSchema == ExpectedPathSchema(d)
            querySchema == ExpectedQuerySchema(d)
            pathOk == Parse(pathSchema, rawReq.params).ok
            queryInput == IF d.parameters.query = Undefined THEN rawReq.query
                          ELSE Obj([k \in DOMAIN rawReq.query.fields |->
                                       C11_Value(rawReq.query.fields[k])])
            queryOk == Parse(querySchema, queryInput).ok
        IN /\ req.contentType = rawReq.contentType
           /\ \A i \in DOMAIN errorCalls :
                \/ d.parameters.header = Undefined
                \/ errorCalls[i].err.schema # d.parameters.header
           /\ ~pathOk =>
                /\ req = rawReq
                /\ errorCalls = <<[err |-> ZodError(pathSchema, rawReq.params),
                                   res |-> NewRes]>>
           /\ (pathOk /\ ~queryOk) =>
                /\ req.body = rawReq.body
                /\ errorCalls = <<[err |-> ZodError(querySchema, queryInput),
                                   res |-> NewRes]>>

\* the path parameters failed on a request whose query holds "true" and
\* "false": the request still holds them as strings
C17_Witness ==
    /\ ValidatorRan
    /\ Len(errorCalls) = 1
    /\ errorCalls[1].err.input = rawReq.params
    /\ apiDef[route.path][route.method].parameters.query # Undefined
    /\ "off" \in DOMAIN rawReq.query.fields
    /\ req.query.fields["flag"] = Str("true")
    /\ req.query.fields["off"] = Str("false")

(***************************************************************************)
(* The order of the keys of the path input                                 *)
(***************************************************************************)
\* the same path input with its keys enumerated in the opposite order
Reversed(path) == [i \in 1..Len(path) |-> path[Len(path) + 1 - i]]

\* C18: for a template and a path input the resolved url does not depend on
\* the order in which the keys of the path input are enumerated, also when
\* one key begins with another (id and idx).
C18_KeyOrderIrrelevant ==
    (call.made /\ call.config # Undefined /\ call.config.hasPath) =>
        axiosConfig.url = replacePathParams(call.path, Reversed(call.config.path))

(***************************************************************************)
(* The error handler and the interceptor                                   *)
(***************************************************************************)
\* C19: with response validation enabled res.json is replaced only after
\* the request validator has passed the request on; the error handler
\* called for a request validation failure runs with the res.json of
\* Express, so the body it sends goes out as it is, under the status code
\* it was sent with, is not parsed and is never replaced by the 500
\* fallback.
C19_ErrorHandlerSendUnchecked ==
    /\ res.json = "override" => (nextCalls = 1 /\ errorCalls = <<>>)
    /\ pc = "errorHandler" => res.json = "original"
    /\ (firstJson.called /\ firstJson.by = "errorHandler") =>
        /\ wire = <<[status |-> firstJson.statusCode, body |-> firstJson.body]>>
        /\ validated = 0

\* with response validation enabled the error handler of a failed
\* get /users/:id has sent, under status 200, a body the schema of 200
\* rejects, and that body is what was transmitted
C19_Witness ==
    /\ attachResponseValidator
    /\ route.path = "/users/:id"
    /\ route.method = "get"
    /\ Len(errorCalls) = 1
    /\ firstJson.called
    /\ firstJson.by = "errorHandler"
    /\ firstJson.statusCode = 200
    /\ ~Parse(UserSchema, firstJson.body).ok
    /\ wire = <<[status |-> 200, body |-> firstJson.body]>>
====
